---- MODULE Spec2Model ----
(***************************************************************************)
(* Model of RSS.py (RoomSpotSnipe): the poll loop of main(), which fetches *)
(* a snapshot of listings, identifies the ones whose id is not in the      *)
(* seen-list, sends one Discord notification per new listing, saves the    *)
(* seen-list to seen_listings.json and sleeps.                             *)
(***************************************************************************)
EXTENDS Integers, Sequences, FiniteSets, TLC

\* ---------------------------------------------------------------- bounds
MaxId == 2        \* listing ids are "1" .. "MaxId", written 1 .. MaxId
MaxItems == 2     \* raw items in one API response
MaxStored == 2    \* ids in seen_listings.json when the process starts

\* ------------------------------------------------------ program constants
CHECK_INTERVAL == 300
BACKOFF == 60
RECOVERY == 60

Ids == 1..MaxId
Titles == {"a", "b"}

Range(s) == {s[k] : k \in DOMAIN s}
NoDup(s) == \A j, k \in DOMAIN s : j # k => s[j] # s[k]
SeqsUpTo(S, n) == UNION {[1..m -> S] : m \in 0..n}

\* A normalised listing (the dict built in get_listings); only the dedup
\* key and the title are kept, the other fields are display-only.
Listings == [id : Ids, title : Titles]
IdsOf(ls) == [k \in DOMAIN ls |-> ls[k].id]

\* Raw API items: id is the text str() gives for the item's 'id', title is
\* "" when street, house number, addition, postal code and city are all
\* empty.  Broken stands for an item whose normalisation raises (for
\* instance one without 'toewijzingModelCategorie' and 'woningsoort').
Broken == [id |-> 0, title |-> "", broken |-> TRUE]
RawItems == [id : Ids, title : Titles \cup {""}, broken : {FALSE}] \cup {Broken}

\* What the POST gives: a network error, a non-200 status (the body, which
\* may well hold items, is then never read), a body that is not JSON, JSON
\* without the 'data' key, or JSON with data['data'] = items.
FetchOutcomes == {"network", "status", "malformed", "nodata", "data"}
Responses ==
  [outcome : {"network", "malformed", "nodata"}, items : {<<>>}]
    \cup [outcome : {"status", "data"}, items : SeqsUpTo(RawItems, MaxItems)]

\* The per-item loop of get_listings: broken items and items with an empty
\* title are skipped, the others are appended in order.
RECURSIVE NormalizeItems(_, _)
NormalizeItems(items, listings) ==
  IF items = <<>> THEN listings
  ELSE LET item == Head(items) IN
       IF item.broken \/ item.title = ""
       THEN NormalizeItems(Tail(items), listings)
       ELSE NormalizeItems(Tail(items),
              Append(listings, [id |-> item.id, title |-> item.title]))

get_listings_nostatus(resp) ==
  IF resp.outcome \in {"network", "malformed", "nodata"} THEN <<>>
  ELSE NormalizeItems(resp.items, <<>>)

get_listings(resp) ==
  IF resp.outcome # "data" THEN <<>>
  ELSE NormalizeItems(resp.items, <<>>)

\* The result of send_discord_notification: whether webhook.send went
\* through (up: the webhook accepts the delivery) and whether an exception
\* leaves the function.
send_discord_notification_raising(listing, up) ==
  [delivered |-> up, raised |-> ~up]

send_discord_notification(listing, up) ==
  [delivered |-> up, raised |-> FALSE]

\* seen_listings.json
Absent == [kind |-> "absent", ids |-> <<>>]
Corrupt == [kind |-> "corrupt", ids |-> <<>>]
ListFile(ids) == [kind |-> "list", ids |-> ids]
InitialStores == {Absent, Corrupt} \cup {ListFile(s) : s \in SeqsUpTo(Ids, MaxStored)}

\* load_seen_listings: only FileNotFoundError is handled.
load_seen_listings(file) ==
  CASE file.kind = "absent" -> [raised |-> FALSE, value |-> <<>>]
    [] file.kind = "list" -> [raised |-> FALSE, value |-> file.ids]
    [] OTHER -> [raised |-> TRUE, value |-> <<>>]

\* save_seen_listings: open(..., 'w') may fail and leave the file as it
\* was, or the write may fail after the file has been truncated.
SaveOutcomes == {"ok", "openfail", "writefail"}

save_seen_listings_nowrite(listings, outcome, file) ==
  CASE outcome = "ok" -> [raised |-> FALSE, file |-> file]
    [] outcome = "openfail" -> [raised |-> TRUE, file |-> file]
    [] OTHER -> [raised |-> TRUE, file |-> Corrupt]

save_seen_listings_short(listings, outcome, file) ==
  CASE outcome = "ok" ->
         [raised |-> FALSE,
          file |-> ListFile(SubSeq(listings, 1, Len(listings) - 1))]
    [] outcome = "openfail" -> [raised |-> TRUE, file |-> file]
    [] OTHER -> [raised |-> TRUE, file |-> Corrupt]

save_seen_listings(listings, outcome, file) ==
  CASE outcome = "ok" -> [raised |-> FALSE, file |-> ListFile(listings)]
    [] outcome = "openfail" -> [raised |-> TRUE, file |-> file]
    [] OTHER -> [raised |-> TRUE, file |-> Corrupt]

\* The loop "for listing in current_listings" of main().
RECURSIVE DiffLoop_pure(_, _, _)
DiffLoop_pure(cur, new, sn) ==
  IF cur = <<>> THEN [new |-> new, seen |-> sn]
  ELSE IF Head(cur).id \notin Range(sn)
       THEN DiffLoop_pure(Tail(cur), Append(new, Head(cur)), sn)
       ELSE DiffLoop_pure(Tail(cur), new, sn)

RECURSIVE DiffLoop_prepend(_, _, _)
DiffLoop_prepend(cur, new, sn) ==
  IF cur = <<>> THEN [new |-> new, seen |-> sn]
  ELSE IF Head(cur).id \notin Range(sn)
       THEN DiffLoop_prepend(Tail(cur), <<Head(cur)>> \o new, Append(sn, Head(cur).id))
       ELSE DiffLoop_prepend(Tail(cur), new, sn)

RECURSIVE DiffLoop_wronglist(_, _, _)
DiffLoop_wronglist(cur, new, sn) ==
  IF cur = <<>> THEN [new |-> new, seen |-> sn]
  ELSE IF Head(cur).id \notin Range(IdsOf(new))
       THEN DiffLoop_wronglist(Tail(cur), Append(new, Head(cur)), Append(sn, Head(cur).id))
       ELSE DiffLoop_wronglist(Tail(cur), new, sn)

RECURSIVE DiffLoop(_, _, _)
DiffLoop(cur, new, sn) ==
  IF cur = <<>> THEN [new |-> new, seen |-> sn]
  ELSE IF Head(cur).id \notin Range(sn)
       THEN DiffLoop(Tail(cur), Append(new, Head(cur)), Append(sn, Head(cur).id))
       ELSE DiffLoop(Tail(cur), new, sn)

VARIABLES
  pc,               \* where main() is
  seen_listings,    \* the in-memory seen-list
  store,            \* seen_listings.json
  current_listings, \* the snapshot of this cycle
  new_listings,     \* the new listings of this cycle
  idx,              \* position of the notification loop in new_listings
  sleepFor,         \* seconds of the asyncio.sleep in progress, 0 if none
  calls,            \* this cycle's sink calls: <<[listing, ok]>>
  lastFetch,        \* how this cycle's fetch ended
  persistState,     \* the save of the latest cycle
  seen0,            \* seen_listings when this cycle started
  delivered,        \* ids delivered to the sink during this run
  failedIds,        \* ids whose delivery failed during this run
  identifiedBefore, \* ids identified as new by earlier cycles of this run
  cleanStart        \* the process started from a duplicate-free file

vars == <<pc, seen_listings, store, current_listings, new_listings, idx,
          sleepFor, calls, lastFetch, persistState, seen0,
          delivered, failedIds, identifiedBefore, cleanStart>>

history == <<delivered, failedIds, identifiedBefore, cleanStart>>

Init ==
  /\ pc = "start"
  /\ store \in InitialStores
  /\ seen_listings = <<>>
  /\ current_listings = <<>>
  /\ new_listings = <<>>
  /\ idx = 1
  /\ sleepFor = 0
  /\ calls = <<>>
  /\ lastFetch = "none"
  /\ persistState = "none"
  /\ seen0 = <<>>
  /\ delivered = {}
  /\ failedIds = {}
  /\ identifiedBefore = {}
  /\ cleanStart = NoDup(store.ids)

\* seen_listings = load_seen_listings(), outside the try of the loop.
Load ==
  /\ pc = "start"
  /\ LET r == load_seen_listings(store) IN
       /\ pc' = IF r.raised THEN "terminated" ELSE "fetch"
       /\ seen_listings' = r.value
  /\ UNCHANGED <<store, current_listings, new_listings, idx, sleepFor,
                 calls, lastFetch, persistState, seen0, history>>

\* current_listings = await get_listings(), and the empty-snapshot branch.
Fetch ==
  /\ pc = "fetch"
  /\ \E resp \in Responses :
       LET cur == get_listings(resp) IN
         /\ current_listings' = cur
         /\ lastFetch' = resp.outcome
         /\ IF cur = <<>>
            THEN /\ pc' = "backoff"
                 /\ sleepFor' = BACKOFF
                 /\ persistState' = "skipped"
            ELSE /\ pc' = "diff"
                 /\ sleepFor' = 0
                 /\ persistState' = "pending"
  /\ seen0' = seen_listings
  /\ UNCHANGED <<seen_listings, store, new_listings, idx, calls, history>>

\* "Check for new listings".
Diff ==
  /\ pc = "diff"
  /\ LET r == DiffLoop(current_listings, <<>>, seen_listings) IN
       /\ new_listings' = r.new
       /\ seen_listings' = r.seen
       /\ pc' = IF r.new = <<>> THEN "persist" ELSE "notify"
  /\ idx' = 1
  /\ UNCHANGED <<store, current_listings, sleepFor, calls, lastFetch,
                 persistState, seen0, history>>

\* One iteration of "for listing in new_listings".
Notify ==
  /\ pc = "notify"
  /\ idx <= Len(new_listings)
  /\ \E up \in BOOLEAN :
     LET listing == new_listings[idx]
         r == send_discord_notification(listing, up) IN
       /\ calls' = Append(calls, [listing |-> listing, ok |-> r.delivered])
       /\ delivered' = IF r.delivered THEN delivered \cup {listing.id} ELSE delivered
       /\ failedIds' = IF r.delivered THEN failedIds ELSE failedIds \cup {listing.id}
       /\ IF r.raised
          THEN /\ pc' = "recover"
               /\ sleepFor' = RECOVERY
               /\ idx' = idx
          ELSE /\ pc' = IF idx = Len(new_listings) THEN "persist" ELSE "notify"
               /\ sleepFor' = 0
               /\ idx' = idx + 1
  /\ UNCHANGED <<seen_listings, store, current_listings, new_listings,
                 lastFetch, persistState, seen0, identifiedBefore, cleanStart>>

\* save_seen_listings(seen_listings), then the steady sleep, or the
\* except branch of the loop when the save raises.
Persist ==
  /\ pc = "persist"
  /\ \E outcome \in SaveOutcomes :
       LET r == save_seen_listings(seen_listings, outcome, store) IN
         /\ store' = r.file
         /\ IF r.raised
            THEN /\ pc' = "recover"
                 /\ sleepFor' = RECOVERY
                 /\ persistState' = "failed"
            ELSE /\ pc' = "sleep"
                 /\ sleepFor' = CHECK_INTERVAL
                 /\ persistState' = "done"
  /\ UNCHANGED <<seen_listings, current_listings, new_listings, idx,
                 calls, lastFetch, seen0, history>>

\* An asyncio.sleep returns and the loop starts its next cycle.  The locals
\* of the finished cycle are assigned again (current_listings by the fetch,
\* new_listings by the diff) before anything reads them, so they are
\* cleared here.
Wake ==
  /\ pc \in {"sleep", "backoff", "recover"}
  /\ pc' = "fetch"
  /\ sleepFor' = 0
  /\ current_listings' = <<>>
  /\ new_listings' = <<>>
  /\ idx' = 1
  /\ calls' = <<>>
  /\ lastFetch' = "none"
  /\ identifiedBefore' = identifiedBefore \cup Range(IdsOf(new_listings))
  /\ UNCHANGED <<seen_listings, store, persistState, seen0,
                 delivered, failedIds, cleanStart>>

Next == Load \/ Fetch \/ Diff \/ Notify \/ Persist \/ Wake

Spec == Init /\ [][Next]_vars

\* main() is one sequential task: whenever it can take a step it does.
FairSpec == Init /\ [][Next]_vars /\ WF_vars(Next)

TypeOK ==
  /\ pc \in {"start", "fetch", "diff", "notify", "persist", "sleep",
             "backoff", "recover", "terminated"}
  /\ sleepFor \in {0, BACKOFF, RECOVERY, CHECK_INTERVAL}
  /\ idx \in 1..(MaxItems + 1)
  /\ current_listings \in SeqsUpTo(Listings, MaxItems)

\* ------------------------------------------------------------ properties
CalledListings == [k \in DOMAIN calls |-> calls[k].listing]
CurrentIds == Range(IdsOf(current_listings))

\* The elements of s at the positions in keep, in the order of s.
Pick(s, keep) ==
  [n \in 1..Cardinality(keep) |->
     s[CHOOSE k \in keep : Cardinality({j \in keep : j <= k}) = n]]

\* C1: when a cycle with a non-empty snapshot reaches its steady sleep, the
\* file holds the seen-list of the cycle's start followed by the ids of the
\* cycle's new listings in snapshot order, and the sink has been called
\* exactly once for each new listing and for no other listing.
C1_CycleResult ==
  pc = "sleep" =>
    /\ store = ListFile(seen0 \o IdsOf(new_listings))
    /\ CalledListings = new_listings
    /\ NoDup(IdsOf(new_listings))
    /\ Range(IdsOf(new_listings)) = CurrentIds \ Range(seen0)
    /\ sleepFor = CHECK_INTERVAL

C1_Witness ==
  /\ pc = "sleep"
  /\ seen0 = <<1>>
  /\ IdsOf(current_listings) = <<1, 2>>
  /\ store = ListFile(<<1, 2>>)
  /\ IdsOf(CalledListings) = <<2>>

\* C2 as claimed: the new listings are exactly the elements of the snapshot
\* whose id is not in the seen-list as it was when the diff started, in
\* snapshot order, also when an id occurs twice in the snapshot.
C2_Original ==
  pc \in {"notify", "persist", "sleep"} =>
    new_listings =
      Pick(current_listings,
           {k \in DOMAIN current_listings :
              current_listings[k].id \notin Range(seen0)})

\* C2 amended: the new listings are, in snapshot order, exactly the elements
\* of the snapshot whose id is not in the seen-list as it was when the diff
\* started and is not the id of an earlier element of the same snapshot.
C2_FirstUnseen ==
  pc \in {"notify", "persist", "sleep"} =>
    new_listings =
      Pick(current_listings,
           {k \in DOMAIN current_listings :
              /\ current_listings[k].id \notin Range(seen0)
              /\ \A j \in 1..(k - 1) :
                   current_listings[j].id # current_listings[k].id})

C2_Witness ==
  /\ pc = "notify"
  /\ Len(current_listings) = 2
  /\ current_listings[1].id = current_listings[2].id
  /\ current_listings[1].title # current_listings[2].title
  /\ current_listings[1].id \notin Range(seen0)
  /\ new_listings = <<current_listings[1]>>

\* C3: a cycle whose fetch fails or yields an empty snapshot calls the sink
\* for nothing, leaves the seen-list and the file as they were, sleeps the
\* 60 s backoff (shorter than the 300 s poll interval) and then starts the
\* next cycle.
C3_BackoffState ==
  /\ lastFetch \in {"network", "status", "malformed", "nodata"} => pc = "backoff"
  /\ pc \in {"diff", "notify", "persist", "sleep"} => current_listings # <<>>
  /\ pc = "backoff" =>
       /\ current_listings = <<>>
       /\ calls = <<>>
       /\ seen_listings = seen0
       /\ sleepFor = BACKOFF
       /\ BACKOFF < CHECK_INTERVAL
       /\ ENABLED Wake

C3_BackoffStep ==
  /\ (pc = "fetch" /\ pc' = "backoff") \/ pc = "backoff" =>
       /\ store' = store
       /\ seen_listings' = seen_listings
       /\ calls' = <<>>
       /\ delivered' = delivered
       /\ failedIds' = failedIds
  /\ pc = "backoff" => pc' \in {"backoff", "fetch"}

C3_EmptySnapshot == []C3_BackoffState /\ [][C3_BackoffStep]_vars

C3_Witness ==
  /\ pc = "backoff"
  /\ lastFetch = "malformed"
  /\ seen_listings # <<>>
  /\ store = ListFile(seen_listings)

\* C4: a notification that fails does not leave the loop: the loop goes on
\* to the next new listing, every new listing of the cycle has been given
\* to the sink, in order, when the cycle saves, and the cycle that reaches
\* its steady sleep has saved the full seen-list.
C4_FailedStep ==
  (pc = "notify" /\ Len(calls') = Len(calls) + 1 /\ ~calls'[Len(calls')].ok) =>
    /\ idx' = idx + 1
    /\ pc' = IF idx = Len(new_listings) THEN "persist" ELSE "notify"

C4_AllCalled ==
  /\ pc \in {"persist", "sleep"} => CalledListings = new_listings
  /\ pc = "notify" => CalledListings = SubSeq(new_listings, 1, idx - 1)
  /\ pc = "sleep" => store = ListFile(seen_listings)

C4_FailureContained == []C4_AllCalled /\ [][C4_FailedStep]_vars

C4_Witness ==
  /\ pc = "sleep"
  /\ Len(calls) = 2
  /\ ~calls[1].ok
  /\ calls[2].ok

\* C5 as claimed: a listing identified as new is eventually delivered, if it
\* keeps appearing in the snapshots and the sink eventually accepts.
SinkFails == Len(calls') = Len(calls) + 1 /\ ~calls'[Len(calls')].ok

C5_AtLeastOnce ==
  \A i \in Ids :
    ([]<>(pc = "diff" /\ i \in CurrentIds) /\ <>[][~SinkFails]_vars)
      => [](i \in Range(IdsOf(new_listings)) => <>(i \in delivered))

\* C5 amended: the loop notifies only for the delta, with one delivery
\* attempt per new listing: the sink is called only for ids that were not
\* in the seen-list when the cycle started, and an id whose delivery failed
\* is never delivered later in the run.
C5_SingleAttempt ==
  /\ failedIds \cap delivered = {}
  /\ \A k \in DOMAIN calls : calls[k].listing.id \notin Range(seen0)
  /\ failedIds \subseteq Range(seen_listings)

C5_Witness ==
  /\ pc = "sleep"
  /\ \E i \in failedIds \cap identifiedBefore :
       /\ i \in CurrentIds
       /\ i \notin delivered
  /\ calls = <<>>

\* C6: an id identified as new by one cycle is never given to the sink by a
\* later cycle, whatever the outcome of its notification, and no id is
\* given to the sink twice in a run.
C6_NotAgain ==
  /\ \A k \in DOMAIN calls : calls[k].listing.id \notin identifiedBefore
  /\ NoDup(IdsOf(CalledListings))

C6_CallStep ==
  Len(calls') = Len(calls) + 1 =>
    calls'[Len(calls')].listing.id \notin (delivered \cup failedIds)

C6_AtMostOncePerId == []C6_NotAgain /\ [][C6_CallStep]_vars

C6_Witness ==
  /\ pc = "sleep"
  /\ calls # <<>>
  /\ \E i \in identifiedBefore \cap failedIds : i \in CurrentIds

\* C7: in a run that started from a duplicate-free or absent file, neither
\* the in-memory seen-list nor the file ever holds an id twice.
C7_NoDuplicates ==
  cleanStart => NoDup(seen_listings) /\ NoDup(store.ids)

C7_Witness ==
  /\ cleanStart
  /\ pc = "sleep"
  /\ Len(current_listings) = 2
  /\ current_listings[1].id = current_listings[2].id
  /\ current_listings[1].id \in Range(store.ids) \ Range(seen0)
  /\ identifiedBefore \cap Range(store.ids) # {}

\* C8: no error terminates the process, a failure to load the seen-list at
\* startup included.
C8_NeverTerminates == pc # "terminated"

\* C9 as claimed: the diff leaves the in-memory seen-list as it was.
C9_Original == [][pc = "diff" => seen_listings' = seen_listings]_vars

\* C9 amended: the diff appends the ids of the new listings, in snapshot
\* order, to the in-memory seen-list, and the notify step leaves the
\* seen-list as it is.
C9_DiffStep ==
  /\ (pc = "diff" /\ pc' # "diff") =>
       /\ seen_listings' = seen_listings \o IdsOf(new_listings')
       /\ seen_listings = seen0
  /\ pc \in {"notify", "persist"} => seen_listings' = seen_listings

C9_DiffAppends == [][C9_DiffStep]_vars

C9_Witness ==
  /\ pc = "notify"
  /\ idx = 1
  /\ calls = <<>>
  /\ Len(seen_listings) = Len(seen0) + 2

\* C10 as claimed: the fetch of the next cycle starts only after the save of
\* a cycle that identified its new listings has completed.
C10_Original ==
  (pc = "fetch" /\ persistState \notin {"none", "skipped"}) =>
    persistState = "done"

\* C10 amended: the next fetch never starts while the diff, the notify loop
\* or the save of a cycle is pending; it starts after the save has
\* completed, and then the file holds the in-memory seen-list, or after the
\* save has raised and the exception was caught at the cycle boundary, or
\* after a cycle whose snapshot was empty.
C10_Sequential ==
  /\ persistState = "pending" <=> pc \in {"diff", "notify", "persist"}
  /\ pc = "fetch" => persistState \in {"none", "done", "failed", "skipped"}
  /\ (pc \in {"fetch", "sleep"} /\ persistState = "done") =>
       store = ListFile(seen_listings)
  /\ pc = "sleep" <=> (persistState = "done" /\ sleepFor = CHECK_INTERVAL)
  /\ persistState = "failed" /\ pc # "fetch" => pc = "recover"

C10_Witness ==
  /\ pc = "fetch"
  /\ persistState = "failed"
  /\ delivered # {}
  /\ store.kind = "list"
  /\ store.ids # seen_listings
====
